---- MODULE Spec2Model ----
(***************************************************************************)
(* Short_Cutteer: the user32.dll wrappers of the keyboard-hook engine      *)
(* (hook/windows), the synthetic key constructors (hookCommonInputKey.go)  *)
(* and the command panel script.                                           *)
(***************************************************************************)
EXTENDS Integers, Sequences, FiniteSets, TLC

VARIABLES
    \* ---- engine (Go) ----
    pc,          \* position of the process: start, loaded, running, exited, aborted, panicked
    panicAt,     \* which call panicked ("" while none did)
    dllPresent,  \* environment: user32.dll can be loaded
    exports,     \* environment: the procedures the loaded DLL exports
    hhook,       \* the handle SetWindowsHookExW returned
    shiftHeld,   \* environment: the physical Shift key is down
    inq,         \* keyboard events the OS still has to hand to the hook
    cbpc,        \* position inside the hook callback: idle, erase, type, forward
    cb,          \* the current / last callback invocation
    buffer,      \* rolling trigger buffer
    hwChars,     \* history: the last characters typed on the hardware keyboard
    send,        \* the last SendInput call of the current callback
    getmsg,      \* the last GetMessageW call since the last callback
    unhook,      \* the last UnhookWindowsHookEx call
    \* ---- key constructors ----
    built,       \* events constructed so far, with the constructor that made each
    \* ---- panel (JavaScript) ----
    cards,       \* the cards under #cards-parent, in document order
    form,        \* the values typed into the modal form
    modalActive, \* the add-command modal is shown
    sent,        \* the messages handed to send(), oldest first
    lastAction   \* the last user action on the panel

engineVars == <<pc, panicAt, dllPresent, exports, hhook, shiftHeld, inq, cbpc, cb,
                buffer, hwChars, send, getmsg, unhook>>
keyVars    == <<built>>
panelVars  == <<cards, form, modalActive, sent, lastAction>>
vars       == <<engineVars, keyVars, panelVars>>

(***************************************************************************)
(* Bounds of the model.                                                    *)
(***************************************************************************)
MaxQueue == 1     \* the user types only while fewer events than this wait for the hook
MaxBuilt == 2     \* events constructed in one run of the constructors
MaxCards == 2     \* cards in the panel
MaxSent  == 2     \* messages kept in the channel to the engine

(***************************************************************************)
(* Constants of the wrappers.                                              *)
(***************************************************************************)
VK_BACK    == 8
VK_SHIFT   == 16
VK_CONTROL == 17
VK_MENU    == 18
VK_LEFT    == 37
VK_UP      == 38
VK_RIGHT   == 39
VK_DOWN    == 40
INPUT_MOUSE     == 0
INPUT_KEYBOARD  == 1
KEYEVENTF_KEYUP == 2

\* Letter keys and the flag bits of KBDLLHOOKSTRUCT.flags (Win32 values).
VK_A == 65
VK_B == 66
LLKHF_INJECTED == 16
LLKHF_UP       == 128

HasBit(flags, bit) == (flags \div bit) % 2 = 1

(***************************************************************************)
(* hookCommonInputKey.go: the synthetic key constructors.                  *)
(***************************************************************************)
\* The zero value of KEYBDINPUT.
KEYBDINPUT == [WVk |-> 0, WScan |-> 0, DwFlags |-> 0, Time |-> 0, DwExtraInfo |-> 0]

tagInputKeyboard == [InputType |-> INPUT_KEYBOARD, Ki |-> KEYBDINPUT]

tagInputShiftDown == [tagInputKeyboard EXCEPT !.Ki.WVk = VK_SHIFT]

tagInputShiftUp == [tagInputShiftDown EXCEPT !.Ki.DwFlags = KEYEVENTF_KEYUP]

tagInputCtrlDown == [tagInputKeyboard EXCEPT !.Ki.WVk = VK_CONTROL]

\* The copy-and-paste slip: CTRL up built from the SHIFT template.
tagInputCtrlUp_FromShift == [tagInputShiftDown EXCEPT !.Ki.DwFlags = KEYEVENTF_KEYUP]

tagInputCtrlUp == [tagInputCtrlDown EXCEPT !.Ki.DwFlags = KEYEVENTF_KEYUP]

tagInputAltDown == [tagInputKeyboard EXCEPT !.Ki.WVk = VK_MENU]

tagInputAltUp == [tagInputAltDown EXCEPT !.Ki.DwFlags = KEYEVENTF_KEYUP]

tagInputLeftArrowDown == [tagInputKeyboard EXCEPT !.Ki.WVk = VK_LEFT]

tagInputUpArrowDown == [tagInputKeyboard EXCEPT !.Ki.WVk = VK_UP]

tagInputRightArrowDown == [tagInputKeyboard EXCEPT !.Ki.WVk = VK_RIGHT]

tagInputDownnArrowDown == [tagInputKeyboard EXCEPT !.Ki.WVk = VK_DOWN]

\* The constructors the file declares: the key and direction each is named
\* for, and the event it returns.
Constructors ==
    { [key |-> VK_SHIFT,   dir |-> "down", ev |-> tagInputShiftDown],
      [key |-> VK_SHIFT,   dir |-> "up",   ev |-> tagInputShiftUp],
      [key |-> VK_CONTROL, dir |-> "down", ev |-> tagInputCtrlDown],
      [key |-> VK_CONTROL, dir |-> "up",   ev |-> tagInputCtrlUp],
      [key |-> VK_MENU,    dir |-> "down", ev |-> tagInputAltDown],
      [key |-> VK_MENU,    dir |-> "up",   ev |-> tagInputAltUp],
      [key |-> VK_LEFT,    dir |-> "down", ev |-> tagInputLeftArrowDown],
      [key |-> VK_UP,      dir |-> "down", ev |-> tagInputUpArrowDown],
      [key |-> VK_RIGHT,   dir |-> "down", ev |-> tagInputRightArrowDown],
      [key |-> VK_DOWN,    dir |-> "down", ev |-> tagInputDownnArrowDown] }

\* The virtual keys the constructors cover.
SupportedKeys == {VK_SHIFT, VK_CONTROL, VK_MENU, VK_LEFT, VK_UP, VK_RIGHT, VK_DOWN}

\* A caller constructs one more event of a batch with one of the constructors.
Construct(c) ==
    /\ Len(built) < MaxBuilt
    /\ built' = Append(built, c)
    /\ UNCHANGED <<engineVars, panelVars>>

ConstructDown == \E c \in {x \in Constructors : x.dir = "down"} : Construct(c)

ConstructUp == \E c \in {x \in Constructors : x.dir = "up"} : Construct(c)

(***************************************************************************)
(* hook/windows: the user32.dll wrappers.                                  *)
(***************************************************************************)
\* The procedures declared with winDLLUser32.NewProc.
Procs == {"CallNextHookEx", "SetWindowsHookExW", "UnhookWindowsHookEx",
          "GetMessageW", "SendInput", "GetKeyState"}

\* NewProc only records the name; LazyProc.Call resolves it on first use and
\* panics when the DLL does not export it.
Resolves(name) == name \in exports

\* LoadDLLs: winDLLUser32.Load() loads the DLL and nothing else; an error panics.
LoadDLLs(present) == IF present THEN "loaded" ELSE "panicked"

\* CallNextHookEx drops the OS result.
CallNextHookEx_Dropped(result) == 0

\* CallNextHookEx returns LRESULT(result).
CallNextHookEx(result) == result

\* SetWindowsHookExW returns HHOOK(result), whatever the result is.
SetWindowsHookExW(result) == result

\* UnhookWindowsHookEx: a zero result is logged and reported as false.
UnhookWindowsHookEx(result) ==
    IF result = 0
    THEN [ret |-> FALSE, logs |-> {"UnhookWindowsHookEx error:"}]
    ELSE [ret |-> TRUE,  logs |-> {}]

\* GetMessageW: a zero result is logged and reported as false.
GetMessageW(res) ==
    IF res = 0
    THEN [ret |-> FALSE, logs |-> {"GetMessageW error:"}]
    ELSE [ret |-> TRUE,  logs |-> {}]

\* SendInput reporting all-or-nothing: the requested count on any success.
SendInput_AllOrNothing(cInputs, result) ==
    IF result = 0
    THEN [ret |-> 0,       logs |-> {"SendInput error:"}]
    ELSE [ret |-> cInputs, logs |-> {}]

\* SendInput: a zero result is logged and 0 returned, else uint(result).
SendInput(cInputs, result) ==
    IF result = 0
    THEN [ret |-> 0,      logs |-> {"SendInput error:"}]
    ELSE [ret |-> result, logs |-> {}]

\* What the OS reads for SendInput(cInputs, pInputs, cbSize): cInputs
\* structures starting at &pInputs, the address of the wrapper's own copy of
\* ONE tagINPUT.  The first is pInputs; the others lie beyond that object.
OsReadInputs(cInputs, pInputs, beyond) ==
    [i \in 1..cInputs |-> IF i = 1 THEN pInputs ELSE beyond[i - 1]]

\* GetKeyState returns SHORT(result): the low 16 bits, two's complement.
GetKeyState(result) ==
    IF result % 65536 >= 32768 THEN (result % 65536) - 65536 ELSE result % 65536

\* tagKBDLLHOOKSTRUCT with scanCode and flags in each other's place.
tagKBDLLHOOKSTRUCT_Swapped(vkCode, scanCode, flags, time, dwExtraInfo) ==
    [vkCode |-> vkCode, scanCode |-> flags, flags |-> scanCode, time |-> time,
     dwExtraInfo |-> dwExtraInfo]

\* tagKBDLLHOOKSTRUCT: what the callback reads through lParam, given the five
\* DWORDs the OS wrote in the order of KBDLLHOOKSTRUCT.
tagKBDLLHOOKSTRUCT(vkCode, scanCode, flags, time, dwExtraInfo) ==
    [vkCode |-> vkCode, scanCode |-> scanCode, flags |-> flags, time |-> time,
     dwExtraInfo |-> dwExtraInfo]

(***************************************************************************)
(* The operating system, as the wrappers see it.                           *)
(***************************************************************************)
\* Results of CallNextHookEx (the next hook passes or consumes), of
\* SetWindowsHookExW (NULL or a handle), of UnhookWindowsHookEx (BOOL) and of
\* GetMessageW (-1 on error, 0 on WM_QUIT, nonzero for any other message).
NextHookResults == {0, 1}
HookHandles     == {0, 1}
UnhookResults   == {0, 1}
GetMessageResults == {-1, 0, 1}

\* A keyboard event as the OS queues it for the low-level hook.
HardwareEvent(vk, up) ==
    [vk |-> vk, scan |-> vk, flags |-> IF up THEN LLKHF_UP ELSE 0]

\* The event the OS queues for an accepted keyboard INPUT: flagged injected.
InjectedEvent(inp) ==
    [vk |-> inp.Ki.WVk, scan |-> inp.Ki.WScan,
     flags |-> LLKHF_INJECTED +
               (IF HasBit(inp.Ki.DwFlags, KEYEVENTF_KEYUP) THEN LLKHF_UP ELSE 0)]

IsInjected(o) == HasBit(o.flags, LLKHF_INJECTED)

RECURSIVE InjectAll(_)
InjectAll(ins) ==
    IF ins = <<>> THEN <<>>
    ELSE (IF Head(ins).InputType = INPUT_KEYBOARD
          THEN <<InjectedEvent(Head(ins))>> ELSE <<>>) \o InjectAll(Tail(ins))

\* Memory beyond the wrapper's single tagINPUT: whatever lies there.  A zeroed
\* structure (a mouse event that does nothing) and a stale key-down stand for it.
Garbage == { [InputType |-> INPUT_MOUSE, Ki |-> KEYBDINPUT],
             [tagInputKeyboard EXCEPT !.Ki.WVk = VK_B] }

(***************************************************************************)
(* Trigger matcher and expansion replayer (spec sections 4.3 and 4.4).     *)
(***************************************************************************)
Char(vk, shift) == [vk |-> vk, shift |-> shift]

Registry ==
    { [trigger |-> <<Char(VK_A, FALSE), Char(VK_B, FALSE)>>,
       output  |-> <<Char(VK_A, FALSE), Char(VK_B, FALSE)>>] }

NoCommand == [trigger |-> <<>>, output |-> <<>>]

\* The longest registered trigger bounds the rolling buffer.
MaxBuf == CHOOSE n \in {Len(c.trigger) : c \in Registry} :
              \A d \in Registry : Len(d.trigger) <= n

ModifierKeys == {VK_SHIFT, VK_CONTROL, VK_MENU}
ControlKeys  == {VK_BACK, VK_LEFT, VK_UP, VK_RIGHT, VK_DOWN}
CharKeys     == {VK_A, VK_B}

IsSuffix(t, buf) ==
    /\ Len(t) <= Len(buf)
    /\ SubSeq(buf, Len(buf) - Len(t) + 1, Len(buf)) = t

\* Oldest characters are evicted beyond the maximum tracked length.
Evict(buf) ==
    IF Len(buf) > MaxBuf THEN SubSeq(buf, Len(buf) - MaxBuf + 1, Len(buf)) ELSE buf

Matches(buf) == {c \in Registry : IsSuffix(c.trigger, buf)}

LongestMatch(buf) ==
    CHOOSE c \in Matches(buf) : \A d \in Matches(buf) : Len(d.trigger) <= Len(c.trigger)

\* The matcher reads the injected bit of the event's flags.
IsSynthetic(ev) == HasBit(ev.flags, LLKHF_INJECTED)

IsKeyUp(ev) == HasBit(ev.flags, LLKHF_UP)

KeyDown(vk) == [tagInputKeyboard EXCEPT !.Ki.WVk = vk]

KeyUp(vk) == [tagInputKeyboard EXCEPT !.Ki.WVk = vk, !.Ki.DwFlags = KEYEVENTF_KEYUP]

\* Batch 1: one Backspace down/up pair per character of the trigger.
RECURSIVE Backspaces(_)
Backspaces(n) ==
    IF n = 0 THEN <<>> ELSE <<KeyDown(VK_BACK), KeyUp(VK_BACK)>> \o Backspaces(n - 1)

\* Batch 2: per character the minimal chord, Shift around keys that need it.
RECURSIVE Chords(_)
Chords(text) ==
    IF text = <<>> THEN <<>>
    ELSE (IF Head(text).shift
          THEN <<tagInputShiftDown, KeyDown(Head(text).vk), KeyUp(Head(text).vk),
                 tagInputShiftUp>>
          ELSE <<KeyDown(Head(text).vk), KeyUp(Head(text).vk)>>) \o Chords(Tail(text))

(***************************************************************************)
(* The engine process.                                                     *)
(***************************************************************************)
NoCall == [entered |-> FALSE, injected |-> FALSE, charDown |-> FALSE, match |-> NoCommand,
           forwards |-> 0, nextResult |-> 0, ret |-> 0, returned |-> FALSE]

NoSend == [called |-> FALSE, batch |-> <<>>, cInputs |-> 0, read |-> <<>>,
           accepted |-> 0, ret |-> 0, submissions |-> 0, logged |-> FALSE]

NoGet == [called |-> FALSE, res |-> 0, ret |-> FALSE, logged |-> FALSE]

NoUnhook == [called |-> FALSE, res |-> 0, ret |-> FALSE, logged |-> FALSE]

\* A LazyProc.Call of a procedure the DLL does not export panics.
Panic(name) ==
    /\ pc' = "panicked"
    /\ panicAt' = name

\* main: LoadDLLs().
Load ==
    /\ pc = "start"
    /\ pc' = LoadDLLs(dllPresent)
    /\ panicAt' = IF pc' = "panicked" THEN "LoadDLLs" ELSE panicAt
    /\ UNCHANGED <<dllPresent, exports, hhook, shiftHeld, inq, cbpc, cb, buffer,
                   hwChars, send, getmsg, unhook, keyVars, panelVars>>

\* main: install(callback).  A null handle is a terminal startup error.
Install ==
    /\ pc = "loaded"
    /\ IF ~Resolves("SetWindowsHookExW")
       THEN Panic("SetWindowsHookExW") /\ hhook' = hhook
       ELSE \E result \in HookHandles :
              /\ hhook' = SetWindowsHookExW(result)
              /\ pc' = IF hhook' = 0 THEN "aborted" ELSE "running"
              /\ panicAt' = panicAt
    /\ UNCHANGED <<dllPresent, exports, shiftHeld, inq, cbpc, cb, buffer, hwChars,
                   send, getmsg, unhook, keyVars, panelVars>>

\* The user presses or releases a key; the OS queues the event for the hook.
UserKey ==
    /\ pc = "running"
    /\ Len(inq) < MaxQueue
    /\ \E vk \in CharKeys \cup {VK_SHIFT, VK_LEFT}, up \in BOOLEAN :
         /\ inq' = Append(inq, HardwareEvent(vk, up))
         /\ shiftHeld' = IF vk = VK_SHIFT THEN ~up ELSE shiftHeld
    /\ UNCHANGED <<pc, panicAt, dllPresent, exports, hhook, cbpc, cb, buffer,
                   hwChars, send, getmsg, unhook, keyVars, panelVars>>

\* runLoop: one GetMessageW call; a failure is logged and the loop goes on.
MessageLoop ==
    /\ pc = "running"
    /\ cbpc = "idle"
    /\ IF ~Resolves("GetMessageW")
       THEN Panic("GetMessageW") /\ UNCHANGED getmsg
       ELSE \E res \in GetMessageResults :
              LET r == GetMessageW(res) IN
              /\ getmsg' = [called |-> TRUE, res |-> res, ret |-> r.ret,
                            logged |-> r.logs # {}]
              /\ UNCHANGED <<pc, panicAt>>
    /\ UNCHANGED <<dllPresent, exports, hhook, shiftHeld, inq, cbpc, cb, buffer, hwChars,
                   send, unhook, keyVars, panelVars>>

\* Shutdown: uninstall(handle), then exit.
Shutdown ==
    /\ pc = "running"
    /\ cbpc = "idle"
    /\ IF ~Resolves("UnhookWindowsHookEx")
       THEN Panic("UnhookWindowsHookEx") /\ UNCHANGED unhook
       ELSE \E result \in UnhookResults :
              LET r == UnhookWindowsHookEx(result) IN
              /\ unhook' = [called |-> TRUE, res |-> result, ret |-> r.ret,
                            logged |-> r.logs # {}]
              /\ pc' = "exited"
              /\ panicAt' = panicAt
    /\ UNCHANGED <<dllPresent, exports, hhook, shiftHeld, inq, cbpc, cb, buffer, hwChars,
                   send, getmsg, keyVars, panelVars>>

(***************************************************************************)
(* The hook callback, step by step.                                        *)
(***************************************************************************)
\* The OS hands the next queued event to the callback: the matcher's step.
CbEnter ==
    /\ pc = "running"
    /\ cbpc = "idle"
    /\ inq # <<>>
    /\ LET o  == Head(inq)
           ev == tagKBDLLHOOKSTRUCT(o.vk, o.scan, o.flags, 0, 0)
           isChar == ~IsSynthetic(ev) /\ ~IsKeyUp(ev) /\ ev.vkCode \in CharKeys
           started == [NoCall EXCEPT !.entered = TRUE, !.injected = IsInjected(o),
                         !.charDown = ~HasBit(o.flags, LLKHF_UP) /\ o.vk \in CharKeys]
       IN
       /\ inq' = Tail(inq)
       /\ send' = NoSend
       /\ getmsg' = NoGet
       /\ hwChars' = IF ~IsInjected(o) /\ ~HasBit(o.flags, LLKHF_UP) /\ o.vk \in CharKeys
                     THEN Evict(Append(hwChars, Char(o.vk, shiftHeld)))
                     ELSE hwChars
       /\ IF isChar /\ ~Resolves("GetKeyState")
          THEN /\ Panic("GetKeyState")
               /\ cb' = started
               /\ UNCHANGED <<cbpc, buffer>>
          ELSE /\ UNCHANGED <<pc, panicAt>>
               /\ IF isChar
                  THEN \E toggle \in {0, 1} :
                         LET state == GetKeyState((IF shiftHeld THEN 32768 ELSE 0) + toggle)
                             buf   == Evict(Append(buffer, Char(ev.vkCode, state < 0)))
                         IN
                         IF Matches(buf) # {}
                         THEN /\ cb' = [started EXCEPT !.match = LongestMatch(buf)]
                              /\ buffer' = SubSeq(buf, 1, Len(buf) - Len(LongestMatch(buf).trigger))
                              /\ cbpc' = "erase"
                         ELSE /\ cb' = started
                              /\ buffer' = buf
                              /\ cbpc' = "forward"
                  ELSE /\ cb' = started
                       /\ cbpc' = "forward"
                       /\ buffer' = IF ~IsSynthetic(ev) /\ ~IsKeyUp(ev) /\ ev.vkCode \in ControlKeys
                                    THEN <<>> ELSE buffer
    /\ UNCHANGED <<dllPresent, exports, hhook, shiftHeld, unhook, keyVars, panelVars>>

\* One submission of a batch through the wrapper, which takes ONE tagINPUT:
\* the caller passes the batch's first event and the batch's length.
Submit(batch, next) ==
    IF ~Resolves("SendInput")
    THEN /\ Panic("SendInput")
         /\ UNCHANGED <<send, inq, cbpc>>
    ELSE \E accepted \in 0..Len(batch), beyond \in [1..(Len(batch) - 1) -> Garbage] :
           LET read == OsReadInputs(Len(batch), batch[1], beyond)
               r    == SendInput(Len(batch), accepted)
           IN
           /\ send' = [called |-> TRUE, batch |-> batch, cInputs |-> Len(batch),
                       read |-> read, accepted |-> accepted, ret |-> r.ret,
                       submissions |-> 1, logged |-> r.logs # {}]
           /\ inq' = inq \o InjectAll(SubSeq(read, 1, accepted))
           /\ cbpc' = IF r.ret < Len(batch) THEN "forward" ELSE next
           /\ UNCHANGED <<pc, panicAt>>

\* Replayer step 1: erase the typed trigger.
CbErase ==
    /\ pc = "running"
    /\ cbpc = "erase"
    /\ Submit(Backspaces(Len(cb.match.trigger)), "type")
    /\ UNCHANGED <<dllPresent, exports, hhook, shiftHeld, cb, buffer, hwChars, getmsg,
                   unhook, keyVars, panelVars>>

\* Replayer step 2: type the output text.
CbType ==
    /\ pc = "running"
    /\ cbpc = "type"
    /\ Submit(Chords(cb.match.output), "forward")
    /\ UNCHANGED <<dllPresent, exports, hhook, shiftHeld, cb, buffer, hwChars, getmsg,
                   unhook, keyVars, panelVars>>

\* The callback forwards the event to the next hook and returns its result.
CbForward ==
    /\ pc = "running"
    /\ cbpc = "forward"
    /\ IF ~Resolves("CallNextHookEx")
       THEN Panic("CallNextHookEx") /\ UNCHANGED <<cb, cbpc>>
       ELSE \E result \in NextHookResults :
              /\ cb' = [cb EXCEPT !.forwards = @ + 1, !.nextResult = result,
                                  !.ret = CallNextHookEx(result), !.returned = TRUE]
              /\ cbpc' = "idle"
              /\ UNCHANGED <<pc, panicAt>>
    /\ UNCHANGED <<dllPresent, exports, hhook, shiftHeld, inq, buffer, hwChars, send,
                   getmsg, unhook, keyVars, panelVars>>

InitEngine ==
    /\ pc = "start"
    /\ panicAt = ""
    /\ dllPresent \in BOOLEAN
    /\ exports \in {Procs} \cup {Procs \ {p} : p \in Procs}
    /\ hhook = 0
    /\ shiftHeld = FALSE
    /\ inq = <<>>
    /\ cbpc = "idle"
    /\ cb = NoCall
    /\ buffer = <<>>
    /\ hwChars = <<>>
    /\ send = NoSend
    /\ getmsg = NoGet
    /\ unhook = NoUnhook

InitKeys == built = <<>>

InitPanel ==
    /\ cards = <<>>
    /\ form = [title |-> "", description |-> "", command |-> "", output |-> ""]
    /\ modalActive = FALSE
    /\ sent = <<>>
    /\ lastAction = [name |-> "none", card |-> 0]

Init == InitEngine /\ InitKeys /\ InitPanel

Next ==
    \/ Load
    \/ Install
    \/ UserKey
    \/ MessageLoop
    \/ Shutdown
    \/ CbEnter
    \/ CbErase
    \/ CbType
    \/ CbForward

Spec == Init /\ [][Next]_vars

\* The engine on a machine whose user32.dll exports every procedure.
InitHealthy == Init /\ dllPresent /\ exports = Procs

NextKeys ==
    \/ ConstructDown
    \/ ConstructUp

SpecKeys == InitHealthy /\ [][NextKeys]_vars

(***************************************************************************)
(* The command panel script.                                               *)
(***************************************************************************)
messageKindCommand == "command"
messageOperationWrite == "write"
messageOperationDelete == "delete"

\* What the user can type into the four inputs of the modal form.
FormTitles       == {"", "t1", "t2"}
FormDescriptions == {"d"}
FormCommands     == {"", "c1"}
FormOutputs      == {"o"}

EmptyForm == [title |-> "", description |-> "", command |-> "", output |-> ""]

\* JSON.stringify of an object literal: the members in the order written.
JSONstringify(title, description, command, output) ==
    << <<"title", title>>, <<"description", description>>, <<"command", command>>,
       <<"output", output>> >>

\* sendCommand builds {kind, operation, data} and hands it to send().
sendCommand(kind, operation, data) ==
    sent' = Append(sent, [kind |-> kind, operation |-> operation, data |-> data])

sendNewCommand(title, description, command, output) ==
    sendCommand(messageKindCommand, messageOperationWrite,
                JSONstringify(title, description, command, output))

\* sendDeleteCommand tagged with the write operation.
sendDeleteCommand_AsWrite(title) ==
    sendCommand(messageKindCommand, messageOperationWrite, title)

sendDeleteCommand(title) ==
    sendCommand(messageKindCommand, messageOperationDelete, title)

\* submitModalNewCommand puts a new card after the last one and hides the modal.
submitModalNewCommand(title, description, command, output) ==
    /\ cards' = Append(cards, [title |-> title, description |-> description,
                               command |-> command, output |-> output])
    /\ modalActive' = FALSE

\* validateModal: an empty title stops it; otherwise it sends and adds the card.
validateModal(f) ==
    IF f.title = ""
    THEN UNCHANGED <<cards, modalActive, sent>>
    ELSE /\ sendNewCommand(f.title, f.description, f.command, f.output)
         /\ submitModalNewCommand(f.title, f.description, f.command, f.output)

Did(name, card) == lastAction' = [name |-> name, card |-> card]

\* Room for one more card and one more message.
Room == Len(cards) < MaxCards /\ Len(sent) < MaxSent

\* $(".add-command").click: the modal is shown and onShow clears the form.
AddCommandClick ==
    /\ modalActive' = TRUE
    /\ form' = EmptyForm
    /\ Did("add-command", 0)
    /\ UNCHANGED <<cards, sent, engineVars, keyVars>>

\* The user types into the inputs of the form.
TypeForm ==
    /\ modalActive
    /\ \E t \in FormTitles, d \in FormDescriptions, c \in FormCommands, o \in FormOutputs :
         form' = [title |-> t, description |-> d, command |-> c, output |-> o]
    /\ Did("type", 0)
    /\ UNCHANGED <<cards, modalActive, sent, engineVars, keyVars>>

\* closable: true - the user dismisses the modal.
CloseModal ==
    /\ modalActive
    /\ modalActive' = FALSE
    /\ Did("close", 0)
    /\ UNCHANGED <<cards, form, sent, engineVars, keyVars>>

\* $("#form-modal").submit
FormSubmit ==
    /\ modalActive
    /\ Room
    /\ validateModal(form)
    /\ Did("submit", 0)
    /\ UNCHANGED <<form, engineVars, keyVars>>

\* modalUi.find(".ok").click
OkClick ==
    /\ modalActive
    /\ Room
    /\ validateModal(form)
    /\ Did("ok", 0)
    /\ UNCHANGED <<form, engineVars, keyVars>>

RemoveAt(seq, i) == SubSeq(seq, 1, i - 1) \o SubSeq(seq, i + 1, Len(seq))

\* cardsParent.on("click", ".delete"): send the card's title, then remove the card.
DeleteClick ==
    /\ Len(sent) < MaxSent
    /\ \E i \in 1..Len(cards) :
         /\ sendDeleteCommand(cards[i].title)
         /\ cards' = RemoveAt(cards, i)
         /\ Did("delete", i)
    /\ UNCHANGED <<form, modalActive, engineVars, keyVars>>

\* The user edits the title input of a card.
EditCardTitle ==
    /\ \E i \in 1..Len(cards), t \in FormTitles :
         /\ cards' = [cards EXCEPT ![i].title = t]
         /\ Did("edit", i)
    /\ UNCHANGED <<form, modalActive, sent, engineVars, keyVars>>

\* $(".sortable").sortable: the user drags a card one place down.
SortCards ==
    /\ \E i \in 1..(Len(cards) - 1) :
         /\ cards' = [cards EXCEPT ![i] = cards[i + 1], ![i + 1] = cards[i]]
         /\ Did("sort", i)
    /\ UNCHANGED <<form, modalActive, sent, engineVars, keyVars>>

\* Hovering a card or focusing an input only changes classes and labels.
HoverOrFocus ==
    /\ Did("hover-focus", 0)
    /\ UNCHANGED <<cards, form, modalActive, sent, engineVars, keyVars>>

NextPanel ==
    \/ AddCommandClick
    \/ TypeForm
    \/ CloseModal
    \/ FormSubmit
    \/ OkClick
    \/ DeleteClick
    \/ EditCardTitle
    \/ SortCards
    \/ HoverOrFocus

SpecPanel == InitHealthy /\ [][NextPanel]_vars

(***************************************************************************)
(* Properties.                                                             *)
(***************************************************************************)
\* b occurs in h as a run of consecutive elements.
IsInfix(b, h) ==
    \E i \in 0..(Len(h) - Len(b)) : SubSeq(h, i + 1, i + Len(b)) = b

C3_ReturnsAccepted ==
    send.called =>
        /\ send.submissions = 1
        /\ send.ret = send.accepted
        /\ send.accepted = 0 => send.logged /\ send.ret = 0

\* The partial case: some but not all of the events were accepted.
C3_Witness ==
    /\ send.called
    /\ 0 < send.accepted
    /\ send.accepted < send.cInputs
    /\ send.ret = send.accepted

\* C4 (as claimed): the events the OS reads in a SendInput call are exactly
\* the caller's events 1..n, in order.
C4_Claim == send.called => send.read = send.batch

\* C5 (as claimed): once SetWindowsHookExW has returned, the handle its
\* caller holds is not null.
C5_Claim == pc \in {"running", "aborted", "exited"} => hhook # 0

\* C6 (as claimed): the only call that can fault for an unresolved DLL or
\* procedure is LoadDLLs.
C6_Claim == pc = "panicked" => panicAt = "LoadDLLs"

\* C7 (as claimed): each of the three wrappers logs and returns its failure
\* value exactly when the OS call failed, and its success value otherwise.
C7_Claim ==
    /\ unhook.called =>
          /\ unhook.res = 0 => ~unhook.ret /\ unhook.logged
          /\ unhook.res # 0 => unhook.ret
    /\ getmsg.called =>
          /\ getmsg.res = -1 => ~getmsg.ret /\ getmsg.logged
          /\ getmsg.res > 0 => getmsg.ret
    /\ send.called =>
          /\ send.accepted = 0 => send.ret = 0 /\ send.logged
          /\ send.accepted > 0 => send.ret > 0

\* The message a write of the form's four fields must be.
WriteMessageOf(f) ==
    [kind |-> "command", operation |-> "write",
     data |-> << <<"title", f.title>>, <<"description", f.description>>,
                 <<"command", f.command>>, <<"output", f.output>> >>]

\* What one step of the panel may do to the channel, by the user action taken.
C8_Step ==
    LET a == lastAction' IN
    IF a.name \in {"submit", "ok"} /\ form.title # ""
    THEN sent' = Append(sent, WriteMessageOf(form))
    ELSE IF a.name = "delete"
    THEN /\ sent' = Append(sent, [kind |-> "command", operation |-> "delete",
                                  data |-> cards[a.card].title])
         /\ cards' = RemoveAt(cards, a.card)
    ELSE sent' = sent

\* C8: every message in the channel is a "command" message with operation
\* write or delete; an accepted submission adds exactly one write message
\* carrying the serialized four fields, a Delete click adds exactly one delete
\* message carrying the title of the card it then removes, and no other user
\* action adds a message.
C8_PanelMessages ==
    /\ [](\A i \in 1..Len(sent) :
            /\ sent[i].kind = "command"
            /\ sent[i].operation \in {"write", "delete"})
    /\ [][C8_Step]_vars

\* A card was written, its title edited, and the card deleted: the delete
\* message carries the title the card showed when it was clicked.
C8_Witness ==
    /\ lastAction.name = "delete"
    /\ Len(sent) = 2
    /\ sent[1] = WriteMessageOf([title |-> "t1", description |-> "d",
                                 command |-> "c1", output |-> "o"])
    /\ sent[2] = [kind |-> "command", operation |-> "delete", data |-> "t2"]
    /\ cards = <<>>

\* C9 (as claimed): every write message carries a non-empty trigger, and no
\* two cards of the panel hold the same trigger.
C9_Claim ==
    /\ \A i \in 1..Len(sent) :
          sent[i].operation = "write" => sent[i].data[3] # <<"command", "">>
    /\ \A i, j \in 1..Len(cards) : i # j => cards[i].command # cards[j].command

\* C10 (as claimed): for every key of which an event has been constructed,
\* both a key-down and a key-up event can be constructed; both are keyboard
\* inputs for that key, the key-down event has no flags, and the key-up event
\* is the key-down event with just KEYEVENTF_KEYUP set.
C10_Claim ==
    \A i \in 1..Len(built) :
        \E d, u \in Constructors :
            /\ d.key = built[i].key /\ d.dir = "down"
            /\ u.key = built[i].key /\ u.dir = "up"
            /\ d.ev.InputType = INPUT_KEYBOARD
            /\ d.ev.Ki.WVk = built[i].key
            /\ d.ev.Ki.DwFlags = 0
            /\ u.ev = [d.ev EXCEPT !.Ki.DwFlags = KEYEVENTF_KEYUP]

\* C10 (amended): every constructed event is a keyboard input for the key its
\* constructor is named for, with every other field zero; a key-down event has
\* no flags; key-up events exist for Shift, Control and Alt only, and each is
\* the key-down event of its key with just KEYEVENTF_KEYUP as flags.
C10_KeyEvents ==
    /\ \A k \in SupportedKeys : \E d \in Constructors : d.key = k /\ d.dir = "down"
    /\ \A k \in {VK_SHIFT, VK_CONTROL, VK_MENU} :
          \E u \in Constructors : u.key = k /\ u.dir = "up"
    /\ \A i \in 1..Len(built) :
        LET e == built[i].ev
            down == [InputType |-> INPUT_KEYBOARD,
                     Ki |-> [WVk |-> built[i].key, WScan |-> 0, DwFlags |-> 0,
                             Time |-> 0, DwExtraInfo |-> 0]]
        IN
        /\ built[i].key \in SupportedKeys
        /\ built[i].dir = "down" => e = down
        /\ built[i].dir = "up" =>
              /\ built[i].key \in {VK_SHIFT, VK_CONTROL, VK_MENU}
              /\ e = [down EXCEPT !.Ki.DwFlags = KEYEVENTF_KEYUP]
              /\ \E d \in Constructors :
                    d.key = built[i].key /\ d.dir = "down" /\ d.ev = down

\* A batch holding an arrow key-down, for which no key-up exists, and the
\* key-up of a modifier.
C10_Witness ==
    /\ Len(built) = 2
    /\ built[1].key = VK_LEFT
    /\ built[1].dir = "down"
    /\ built[2].key = VK_CONTROL
    /\ built[2].dir = "up"

====
